---- MODULE Spec2Model ----
(***************************************************************************)
(* Model of SymphoniaDecoderLibOpus (src/src/lib.rs): the adapter that     *)
(* drives an external libopus decoder and deinterleaves its 16-bit output  *)
(* into a symphonia AudioBuffer.                                           *)
(*                                                                         *)
(* Option<T> values are sequences: <<>> is None, <<v>> is Some(v).         *)
(* A Rust panic (unwrap on None/Err, a failed assert!, an index out of     *)
(* range) ends the adapter: state "Panicked" has no successor.             *)
(***************************************************************************)
EXTENDS Integers, Sequences, FiniteSets, TLC

\* ---------------------------------------------------------------- bounds
\* Frames per codec call; stands for the 5760 of lib.rs:16,66,69.
FRAMES == 2
\* Channel counts offered to try_new are 0..MaxChannelCount.
MaxChannelCount == 6

\* ------------------------------------------------------ program constants
\* The scratch buffer is sized for opus' maximum of 2 channels (lib.rs:16,66).
MaxChannels == 2
\* Rate of the SignalSpec given to AudioBuffer::new (lib.rs:70).
SpecRate == 48000
\* u32::default(), the value of Option<u32>::unwrap_or_default() on None.
DefaultU32 == 0

\* i16 sample values the codec may produce (a small subset of i16).
SampleValues == {0, 1}
\* Stream sample rates offered to try_new.
RateChoices == {0, 16000, 44100, 48000}
\* Rates opus_decoder_create accepts; any other rate is OPUS_BAD_ARG.
OpusRates == {8000, 12000, 16000, 24000, 48000}

None == <<>>
Some(v) == <<v>>

\* CodecParameters as far as the adapter reads them: channels, sample_rate.
ParamChoices ==
  [channels : {None} \cup {Some(c) : c \in 0..MaxChannelCount},
   sample_rate : {None} \cup {Some(r) : r \in RateChoices}]

NoParams == [channels |-> None, sample_rate |-> None]

VARIABLES
  state,                 \* "Uninitialized", "Live", "Failed", "Panicked"
  libopus_decoder,       \* Option of [Fs, channels, primed]: the opus handle
  libopus_output_buffer, \* the interleaved scratch buffer ([i16; 5760 * 2])
  decoded_buffer,        \* the AudioBuffer<i16>
  params,                \* the stored CodecParameters
  channels,              \* the stored channel count
  arg_params,            \* history: the parameters try_new was called with
  init_args,             \* history: Option of the arguments of opus init
  codec_err,             \* history: result of the last external codec call
  frames_log,            \* history: the last (at most 2) frame counts returned
  op,                    \* the last operation called
  ret,                   \* what it returned
  readers                \* per thread: the shared reference it holds

vars == <<state, libopus_decoder, libopus_output_buffer, decoded_buffer,
          params, channels, arg_params, init_args, codec_err, frames_log,
          op, ret, readers>>

\* Threads that call the &self methods through a shared reference.
Threads == {"t1", "t2"}

\* ------------------------------------------------ symphonia AudioBuffer<i16>
NoBuffer ==
  [n_capacity |-> 0, n_frames |-> 0, buf |-> <<>>,
   spec |-> [rate |-> 0, channels |-> 0]]

\* A thread holding no reference into the adapter; otherwise ref names the
\* field it borrowed and params / buffer is what it read through it.
NoRef == [ref |-> "none", params |-> NoParams, buffer |-> NoBuffer]

\* AudioBuffer::new(duration, spec): channels * duration samples, all 0,
\* and no frames rendered yet.
AudioBufferNewFull(duration, spec) ==
  [n_capacity |-> duration, n_frames |-> duration,
   buf |-> [i \in 1..(duration * spec.channels) |-> 0],
   spec |-> spec]

AudioBufferNew(duration, spec) ==
  [n_capacity |-> duration, n_frames |-> 0,
   buf |-> [i \in 1..(duration * spec.channels) |-> 0],
   spec |-> spec]

\* AudioBuffer::clear(): the logical length goes to zero, storage is kept.
ClearKeepsFrames(b) == b

ClearReleasesStorage(b) == [b EXCEPT !.n_frames = 0, !.n_capacity = 0, !.buf = <<>>]

Clear(b) == [b EXCEPT !.n_frames = 0]

\* AudioBuffer::render_reserved(Some(n)) asserts that the capacity holds.
RenderReservedUnchecked(b, n) == TRUE

RenderReservedOk(b, n) == b.n_frames + n <= b.n_capacity

RenderReserved(b, n) == [b EXCEPT !.n_frames = b.n_frames + n]

Frames(b) == b.n_frames

NumPlanes(b) == b.spec.channels

\* Plane ch of the buffer: the first n_frames samples of chunk ch.
Plane(b, ch) ==
  [s \in 1..b.n_frames |-> b.buf[ch * b.n_capacity + s]]

\* --------------------------------------------------------------- try_new
\* The match on params.channels.unwrap().count().
TranslateChannelsLax(count) ==
  IF count = 1 THEN "Mono" ELSE "Stereo"

TranslateChannels(count) ==
  CASE count = 1 -> "Mono"
    [] count = 2 -> "Stereo"
    [] OTHER -> "Unsupported"

OpusChannelCount(ch) == IF ch = "Mono" THEN 1 ELSE 2

\* params.sample_rate.unwrap_or_default()
UnwrapOrDefault(o) == IF o = None THEN DefaultU32 ELSE o[1]

\* opus::Decoder::new(Fs, channels): opus_decoder_create rejects a rate it
\* does not know and may fail to allocate.
OpusDecoderNew(Fs, alloc_ok) ==
  IF Fs \notin OpusRates THEN "BadArg"
  ELSE IF ~alloc_ok THEN "AllocFail"
  ELSE "OK"

\* params.clone(): the stored parameters are the caller's, field by field.
CloneParamsDropsRate(p) == [p EXCEPT !.sample_rate = None]

CloneParams(p) == p

\* The rate of the SignalSpec of decoded_buffer: the literal 48000, whatever
\* rate Fs the opus decoder was created with.
BufferSpecRateFollows(Fs) == Fs

BufferSpecRate(Fs) == SpecRate

TryNew ==
  /\ state = "Uninitialized"
  /\ \E p \in ParamChoices, alloc_ok \in BOOLEAN :
       /\ arg_params' = p
       /\ op' = "try_new"
       /\ IF p.channels = None
          THEN \* params.channels.unwrap() panics
               /\ state' = "Panicked"
               /\ ret' = "panic"
               /\ UNCHANGED <<libopus_decoder, libopus_output_buffer,
                              decoded_buffer, params, channels, init_args,
                              codec_err>>
          ELSE LET count == p.channels[1]
                   ch == TranslateChannels(count)
                   Fs == UnwrapOrDefault(p.sample_rate)
                   res == OpusDecoderNew(Fs, alloc_ok)
               IN IF ch = "Unsupported"
                  THEN /\ state' = "Failed"
                       /\ ret' = "Err_Unsupported"
                       /\ UNCHANGED <<libopus_decoder, libopus_output_buffer,
                                      decoded_buffer, params, channels,
                                      init_args, codec_err>>
                  ELSE /\ init_args' = Some([Fs |-> Fs, channels |-> ch])
                       /\ codec_err' = res
                       /\ IF res # "OK"
                          THEN \* opus::Decoder::new(..).unwrap() panics
                               /\ state' = "Panicked"
                               /\ ret' = "panic"
                               /\ UNCHANGED <<libopus_decoder,
                                              libopus_output_buffer,
                                              decoded_buffer, params,
                                              channels>>
                          ELSE /\ state' = "Live"
                               /\ ret' = "Ok"
                               /\ libopus_decoder' =
                                    Some([Fs |-> Fs, channels |-> ch,
                                          primed |-> FALSE])
                               /\ libopus_output_buffer' =
                                    [i \in 1..(FRAMES * MaxChannels) |-> 0]
                               /\ decoded_buffer' =
                                    AudioBufferNew(FRAMES,
                                      [rate |-> BufferSpecRate(Fs),
                                       channels |-> count])
                               /\ params' = CloneParams(p)
                               /\ channels' = count
  /\ UNCHANGED <<frames_log, readers>>

Init ==
  /\ state = "Uninitialized"
  /\ libopus_decoder = None
  /\ libopus_output_buffer = <<>>
  /\ decoded_buffer = NoBuffer
  /\ params = NoParams
  /\ channels = 0
  /\ arg_params = NoParams
  /\ init_args = None
  /\ codec_err = "none"
  /\ frames_log = <<>>
  /\ op = "none"
  /\ ret = "none"
  /\ readers = [t \in Threads |-> NoRef]

\* ---------------------------------------------------------------- decode
\* A &mut self method runs only while no shared reference to the adapter is
\* alive (decode, reset and finalize take &mut self).
BorrowUnchecked == TRUE

NoBorrow == \A t \in Threads : readers[t].ref = "none"

\* The frame_size the opus crate hands to opus_decode: output.len() / channels.
FrameSize(scratch, dec) == Len(scratch) \div OpusChannelCount(dec.channels)

\* opus_decode writes n frames of interleaved samples at the start of the
\* scratch buffer and leaves the rest of it as it was.
OpusWrite(scratch, pcm) ==
  [i \in 1..Len(scratch) |-> IF i <= Len(pcm) THEN pcm[i] ELSE scratch[i]]

\* The index of libopus_output_buffer read for frame s of plane ch.
ScratchIndexStereo(s, ch, nch) == s * MaxChannels + ch

ScratchIndexPlanar(s, ch, nch) == ch * FRAMES + s

ScratchIndex(s, ch, nch) == s * nch + ch

\* The scratch indices the two loops read for a buffer of Frames(b) frames.
ReadIndices(b, nch) ==
  {ScratchIndex(s, ch, nch) :
     s \in 0..(Frames(b) - 1), ch \in 0..(NumPlanes(b) - 1)}

\* Indexing the scratch array out of range panics.
FillInBounds(b, scratch, nch) ==
  \A ch \in 0..(NumPlanes(b) - 1), s \in 0..(Frames(b) - 1) :
    ScratchIndex(s, ch, nch) < Len(scratch)

\* The loops over planes and samples: plane[ch][s] = scratch[s * nch + ch].
FillPlanes(b, scratch, nch) ==
  [b EXCEPT !.buf =
     [i \in 1..Len(b.buf) |->
        LET ch == (i - 1) \div b.n_capacity
            s == (i - 1) % b.n_capacity
        IN IF s < b.n_frames
           THEN scratch[ScratchIndex(s, ch, nch) + 1]
           ELSE b.buf[i]]]

LogFrames(log, n) ==
  IF Len(log) < 2 THEN Append(log, n) ELSE <<log[2], n>>

Decode ==
  /\ state = "Live"
  /\ NoBorrow
  /\ UNCHANGED readers
  /\ op' = "decode"
  /\ UNCHANGED <<params, channels, arg_params, init_args>>
  /\ LET dec == libopus_decoder[1]
     IN \/ \* the codec rejects the packet: decode(..).unwrap() panics
           /\ codec_err' = "InvalidPacket"
           /\ state' = "Panicked"
           /\ ret' = "panic"
           /\ UNCHANGED <<libopus_decoder, libopus_output_buffer,
                          decoded_buffer, frames_log>>
        \/ \E n \in 0..FrameSize(libopus_output_buffer, dec) :
           \E pcm \in [1..(n * OpusChannelCount(dec.channels)) -> SampleValues] :
             LET scratch == OpusWrite(libopus_output_buffer, pcm)
                 cleared == Clear(decoded_buffer)
                 reserved == RenderReserved(cleared, n)
             IN /\ codec_err' = "OK"
                /\ libopus_decoder' = Some([dec EXCEPT !.primed = TRUE])
                /\ libopus_output_buffer' = scratch
                /\ frames_log' = LogFrames(frames_log, n)
                /\ IF ~RenderReservedOk(cleared, n)
                   THEN \* assert! in render_reserved
                        /\ decoded_buffer' = cleared
                        /\ state' = "Panicked"
                        /\ ret' = "panic"
                   ELSE IF ~FillInBounds(reserved, scratch, channels)
                   THEN /\ decoded_buffer' = reserved
                        /\ state' = "Panicked"
                        /\ ret' = "panic"
                   ELSE /\ decoded_buffer' =
                             FillPlanes(reserved, scratch, channels)
                        /\ state' = "Live"
                        /\ ret' = "AudioBufferRef"

\* ----------------------------------------------------------------- reset
ResetClearing ==
  /\ state = "Live"
  /\ NoBorrow
  /\ UNCHANGED readers
  /\ op' = "reset"
  /\ \E ok \in BOOLEAN :
       IF ok
       THEN /\ codec_err' = "OK"
            /\ libopus_decoder' =
                 Some([libopus_decoder[1] EXCEPT !.primed = FALSE])
            /\ ret' = "unit"
            /\ state' = "Live"
            /\ decoded_buffer' = Clear(decoded_buffer)
       ELSE /\ codec_err' = "ResetFail"
            /\ ret' = "panic"
            /\ state' = "Panicked"
            /\ UNCHANGED <<libopus_decoder, decoded_buffer>>
  /\ UNCHANGED <<libopus_output_buffer, params, channels,
                 arg_params, init_args, frames_log>>

ResetIgnoringFailure ==
  /\ state = "Live"
  /\ NoBorrow
  /\ UNCHANGED readers
  /\ op' = "reset"
  /\ \E ok \in BOOLEAN :
       /\ codec_err' = IF ok THEN "OK" ELSE "ResetFail"
       /\ libopus_decoder' =
            IF ok THEN Some([libopus_decoder[1] EXCEPT !.primed = FALSE])
            ELSE libopus_decoder
       /\ ret' = "unit"
       /\ state' = "Live"
  /\ UNCHANGED <<libopus_output_buffer, decoded_buffer, params, channels,
                 arg_params, init_args, frames_log>>

\* self.libopus_decoder.reset_state().unwrap()
Reset ==
  /\ state = "Live"
  /\ NoBorrow
  /\ UNCHANGED readers
  /\ op' = "reset"
  /\ \E ok \in BOOLEAN :
       IF ok
       THEN /\ codec_err' = "OK"
            /\ libopus_decoder' =
                 Some([libopus_decoder[1] EXCEPT !.primed = FALSE])
            /\ ret' = "unit"
            /\ state' = "Live"
       ELSE /\ codec_err' = "ResetFail"
            /\ ret' = "panic"
            /\ state' = "Panicked"
            /\ UNCHANGED libopus_decoder
  /\ UNCHANGED <<libopus_output_buffer, decoded_buffer, params, channels,
                 arg_params, init_args, frames_log>>

\* ------------------------------------------------------ read-only calls
FinalizeVerifies ==
  /\ state = "Live"
  /\ NoBorrow
  /\ UNCHANGED readers
  /\ op' = "finalize"
  /\ ret' = IF frames_log # <<>> THEN "verify_ok_Some_true" ELSE "verify_ok_None"
  /\ UNCHANGED <<state, libopus_decoder, libopus_output_buffer,
                 decoded_buffer, params, channels, arg_params, init_args,
                 codec_err, frames_log>>

\* FinalizeResult { verify_ok: None }
Finalize ==
  /\ state = "Live"
  /\ NoBorrow
  /\ UNCHANGED readers
  /\ op' = "finalize"
  /\ ret' = "verify_ok_None"
  /\ UNCHANGED <<state, libopus_decoder, libopus_output_buffer,
                 decoded_buffer, params, channels, arg_params, init_args,
                 codec_err, frames_log>>

\* &self.params
CodecParams ==
  /\ state = "Live"
  /\ UNCHANGED readers
  /\ op' = "codec_params"
  /\ ret' = "params"
  /\ UNCHANGED <<state, libopus_decoder, libopus_output_buffer,
                 decoded_buffer, params, channels, arg_params, init_args,
                 codec_err, frames_log>>

LastDecodedConsuming ==
  /\ state = "Live"
  /\ UNCHANGED readers
  /\ op' = "last_decoded"
  /\ ret' = "AudioBufferRef"
  /\ decoded_buffer' = Clear(decoded_buffer)
  /\ UNCHANGED <<state, libopus_decoder, libopus_output_buffer,
                 params, channels, arg_params, init_args,
                 codec_err, frames_log>>

\* AudioBufferRef::S16(Cow::Borrowed(&self.decoded_buffer))
LastDecoded ==
  /\ state = "Live"
  /\ UNCHANGED readers
  /\ op' = "last_decoded"
  /\ ret' = "AudioBufferRef"
  /\ UNCHANGED <<state, libopus_decoder, libopus_output_buffer,
                 decoded_buffer, params, channels, arg_params, init_args,
                 codec_err, frames_log>>

Next ==
  \/ TryNew
  \/ Decode
  \/ Reset
  \/ Finalize
  \/ CodecParams
  \/ LastDecoded

Spec == Init /\ [][Next]_vars

\* ------------------------------------------- concurrent read-only calls
\* A thread calls codec_params() and keeps the &CodecParameters it got.
ReaderCodecParams ==
  /\ state = "Live"
  /\ \E t \in Threads :
       /\ readers[t].ref = "none"
       /\ readers' = [readers EXCEPT ![t] = [ref |-> "params",
                                             params |-> params,
                                             buffer |-> NoBuffer]]
  /\ UNCHANGED <<state, libopus_decoder, libopus_output_buffer,
                 decoded_buffer, params, channels, arg_params, init_args,
                 codec_err, frames_log, op, ret>>

\* A thread calls last_decoded() and keeps the AudioBufferRef it got.
ReaderLastDecoded ==
  /\ state = "Live"
  /\ \E t \in Threads :
       /\ readers[t].ref = "none"
       /\ readers' = [readers EXCEPT ![t] = [ref |-> "buffer",
                                             params |-> NoParams,
                                             buffer |-> decoded_buffer]]
  /\ UNCHANGED <<state, libopus_decoder, libopus_output_buffer,
                 decoded_buffer, params, channels, arg_params, init_args,
                 codec_err, frames_log, op, ret>>

\* A thread lets go of its reference.
ReaderRelease ==
  /\ \E t \in Threads :
       /\ readers[t].ref # "none"
       /\ readers' = [readers EXCEPT ![t] = NoRef]
  /\ UNCHANGED <<state, libopus_decoder, libopus_output_buffer,
                 decoded_buffer, params, channels, arg_params, init_args,
                 codec_err, frames_log, op, ret>>

NextReaders ==
  \/ TryNew
  \/ Decode
  \/ Reset
  \/ Finalize
  \/ ReaderCodecParams
  \/ ReaderLastDecoded
  \/ ReaderRelease

SpecReaders == Init /\ [][NextReaders]_vars

\* ================================================================ claims
\* A decode has returned frames and the adapter is still usable.
Decoded == state = "Live" /\ frames_log # <<>>

LastN == frames_log[Len(frames_log)]

ArgCount == arg_params.channels[1]

ValidChannels ==
  arg_params.channels # None /\ ArgCount \in {1, 2}

\* C1: after a successful decode in which the codec returned N frames,
\* last_decoded() has N frames in each of the `channels` planes and
\* plane[c][s] = scratch[s * channels + c] for every c < channels, s < N.
C1_DeinterleaveLaw ==
  Decoded =>
    /\ channels \in {1, 2}
    /\ LastN \in 0..FRAMES
    /\ NumPlanes(decoded_buffer) = channels
    /\ Frames(decoded_buffer) = LastN
    /\ \A c \in 0..(channels - 1) :
         /\ Len(Plane(decoded_buffer, c)) = LastN
         /\ \A s \in 0..(LastN - 1) :
              Plane(decoded_buffer, c)[s + 1] =
                libopus_output_buffer[s * channels + c + 1]

\* C1 witness: a stereo decode of FRAMES frames whose two planes differ.
C1_Witness ==
  /\ Decoded
  /\ op = "decode"
  /\ channels = 2
  /\ LastN = FRAMES
  /\ Plane(decoded_buffer, 0) # Plane(decoded_buffer, 1)

\* C2: after any sequence of successful decodes the frame count of
\* last_decoded() is the count returned by the most recent decode only;
\* frames of earlier decodes are not kept, also when the newer count is
\* the smaller one.
C2_OverwriteNotAppend ==
  Decoded =>
    /\ Frames(decoded_buffer) = LastN
    /\ Len(frames_log) = 2 =>
         /\ Frames(decoded_buffer) = frames_log[2]
         /\ frames_log[1] > 0 =>
              Frames(decoded_buffer) # frames_log[1] + frames_log[2]

\* C2 witness: a second decode returned fewer frames than the first.
C2_Witness ==
  /\ Decoded
  /\ op = "decode"
  /\ Len(frames_log) = 2
  /\ frames_log[2] < frames_log[1]
  /\ frames_log[2] > 0

\* C3: in every state of a constructed adapter in which no decode has been
\* called, last_decoded() is a valid buffer (its capacity and planes as
\* constructed) with zero frames, and the call does not fail.
C3_EmptyBeforeDecode ==
  (state = "Live" /\ frames_log = <<>>) =>
    /\ Frames(decoded_buffer) = 0
    /\ decoded_buffer.n_capacity = FRAMES
    /\ NumPlanes(decoded_buffer) = channels
    /\ Len(decoded_buffer.buf) = FRAMES * channels
    /\ \A c \in 0..(channels - 1) : Plane(decoded_buffer, c) = <<>>
    /\ op = "last_decoded" => ret = "AudioBufferRef"

\* C3 witness: last_decoded() was called on an adapter that never decoded.
C3_Witness ==
  /\ state = "Live"
  /\ frames_log = <<>>
  /\ op = "last_decoded"

\* C4: reset() leaves the planar output buffer as it was (frame count and
\* every sample), and so does every later call that is not a decode.
C4_ResetKeepsOutput ==
  [][op' \in {"reset", "finalize", "codec_params", "last_decoded"}
       => decoded_buffer' = decoded_buffer]_vars

\* C4 witness: a successful reset() of an adapter holding decoded frames.
C4_Witness ==
  /\ state = "Live"
  /\ op = "reset"
  /\ Frames(decoded_buffer) > 0
  /\ \E i \in DOMAIN decoded_buffer.buf : decoded_buffer.buf[i] # 0

\* C5: for a channel count outside {1, 2} construction fails with the
\* unsupported-configuration error, and neither the external decoder
\* handle nor the scratch buffer nor the output buffer was allocated.
C5_UnsupportedChannels ==
  (op = "try_new" /\ arg_params.channels # None /\ ArgCount \notin {1, 2}) =>
    /\ state = "Failed"
    /\ ret = "Err_Unsupported"
    /\ init_args = None
    /\ libopus_decoder = None
    /\ libopus_output_buffer = <<>>
    /\ decoded_buffer = NoBuffer

\* C5 witness: construction was tried with 6 channels.
C5_Witness ==
  /\ op = "try_new"
  /\ arg_params.channels = Some(6)
  /\ state = "Failed"

\* C6: every construction failure is a returned error value and never an
\* unrecoverable fault (channel layout absent, channel count unsupported,
\* external decoder not allocated).
C6_ConstructionErrorsReturned ==
  (op = "try_new" /\ state # "Live") =>
    /\ state = "Failed"
    /\ ret \in {"Err_Unsupported", "Err_Construction"}

\* C7: when the external codec rejects a packet, decode(packet) returns a
\* decode error; it does not fault and returns no buffer.
C7_DecodeErrorReturned ==
  (op = "decode" /\ codec_err = "InvalidPacket") =>
    /\ ret = "Err_Decode"
    /\ state = "Live"

\* C8: a failed decode does not poison the adapter: the output buffer is
\* as before the failed call and the adapter stays usable for later
\* packets.
C8_FailedDecodeKeepsAdapter ==
  [][(op' = "decode" /\ codec_err' = "InvalidPacket")
       => /\ decoded_buffer' = decoded_buffer
          /\ libopus_output_buffer' = libopus_output_buffer
          /\ state' = "Live"]_vars

\* C9: with no sample rate in the stream parameters, construction hands the
\* external decoder a rate the codec accepts, so construction with a valid
\* channel count succeeds (unless the codec cannot allocate).
C9_DefaultRateAccepted ==
  (op = "try_new" /\ ValidChannels /\ arg_params.sample_rate = None) =>
    /\ init_args # None
    /\ init_args[1].Fs \in OpusRates
    /\ codec_err # "BadArg"
    /\ codec_err = "OK" => state = "Live"

\* C10: for every channel count in {1, 2} construction succeeds and
\* codec_params() returns parameters with exactly that channel count.
C10_ValidChannelsConstruct ==
  (state # "Uninitialized" /\ ValidChannels) =>
    /\ state # "Failed"
    /\ ret # "panic" \/ op # "try_new"
    /\ params.channels = arg_params.channels

\* The fields of the adapter and what the external codec has been asked.
adapter == <<state, libopus_decoder, libopus_output_buffer, decoded_buffer,
             params, channels, init_args, codec_err>>

\* C11: on a constructed adapter codec_params() returns the parameters
\* construction was called with, unchanged (sample rate field and channel
\* layout), after any sequence of calls: nothing writes the stored
\* parameters after construction.
C11_ParamsVerbatim ==
  state = "Live" =>
    /\ params = arg_params
    /\ params.sample_rate = arg_params.sample_rate
    /\ params.channels = arg_params.channels
    /\ op = "codec_params" => ret = "params"

\* C11 witness: codec_params() called after two decodes.
C11_Witness ==
  /\ state = "Live"
  /\ op = "codec_params"
  /\ Len(frames_log) = 2

\* C12: finalize() returns the "unknown" verification status in every state
\* of a constructed adapter and changes neither the output buffer nor the
\* stored parameters nor the external decoder state.
C12_FinalizeUnknown ==
  [][op' = "finalize"
       => /\ ret' = "verify_ok_None"
          /\ UNCHANGED adapter]_vars

\* C12 witness: finalize() called after a decode, the decoder state primed.
C12_Witness ==
  /\ Decoded
  /\ op = "finalize"
  /\ libopus_decoder[1].primed
  /\ Frames(decoded_buffer) > 0

\* C13: last_decoded() has no side effect: a call leaves the whole adapter
\* as it was, so consecutive calls return the same frames and samples.
C13_LastDecodedIdempotent ==
  [][op' = "last_decoded"
       => /\ ret' = "AudioBufferRef"
          /\ UNCHANGED adapter
          /\ UNCHANGED frames_log]_vars

\* C13 witness: last_decoded() called on a buffer holding decoded samples.
C13_Witness ==
  /\ Decoded
  /\ op = "last_decoded"
  /\ Frames(decoded_buffer) = FRAMES
  /\ \E i \in DOMAIN decoded_buffer.buf : decoded_buffer.buf[i] # 0

\* C15: the logical length of the output buffer never exceeds its capacity
\* (FRAMES frames), for mono and stereo adapters, when the codec returns at
\* most the frames the scratch buffer holds for the channel count.
C15_LengthWithinCapacity ==
  /\ Frames(decoded_buffer) <= decoded_buffer.n_capacity
  /\ decoded_buffer.n_capacity <= FRAMES
  /\ Frames(decoded_buffer) <= FRAMES

\* C15 witness: the codec returned more frames than the output buffer holds
\* (a mono adapter, whose scratch buffer holds twice as many).
C15_Witness ==
  /\ frames_log # <<>>
  /\ channels = 1
  /\ LastN > FRAMES
  /\ LastN <= (FRAMES * 2) \div channels

\* C16: no failure of an external codec call (init, decode, reset) is
\* swallowed: the calling operation does not complete normally and the
\* adapter does not go on as if the call had succeeded.
C16_NoSwallowedFailure ==
  codec_err \in {"BadArg", "AllocFail", "InvalidPacket", "ResetFail"} =>
    /\ state = "Panicked"
    /\ ret = "panic"

\* C16 witness: the external reset failed.
C16_Witness ==
  /\ op = "reset"
  /\ codec_err = "ResetFail"

\* C17: the decoder handle, the scratch buffer and the output buffer are
\* acquired once, at construction, and no later call re-creates, resizes or
\* releases them: scratch capacity FRAMES x 2 samples, output capacity
\* FRAMES frames x channel count.
C17_ResourcesFixed ==
  state = "Live" =>
    /\ Len(init_args) = 1
    /\ libopus_decoder # None
    /\ libopus_decoder[1].Fs = init_args[1].Fs
    /\ libopus_decoder[1].channels = init_args[1].channels
    /\ Len(libopus_output_buffer) = FRAMES * 2
    /\ decoded_buffer.n_capacity = FRAMES
    /\ Len(decoded_buffer.buf) = FRAMES * channels

\* C17 witness: a reset after two decodes.
C17_Witness ==
  /\ state = "Live"
  /\ op = "reset"
  /\ Len(frames_log) = 2

\* C18: the rate of the signal spec of the buffer decode() and
\* last_decoded() return is 48000 whatever rate the stream gave and the
\* external decoder was created with.
C18_SpecRateFixed ==
  state = "Live" => decoded_buffer.spec.rate = 48000

\* C18 witness: a buffer decoded by a decoder created at 16000.
C18_Witness ==
  /\ Decoded
  /\ op = "last_decoded"
  /\ libopus_decoder[1].Fs = 16000
  /\ arg_params.sample_rate = Some(16000)

\* C19: in a decode returning N frames every scratch index the deinterleave
\* pass reads is below N x channels (so below the scratch capacity):
\* samples an earlier, longer packet left at N x channels and beyond do not
\* reach last_decoded().
C19_ReadsOnlyFreshPrefix ==
  Decoded =>
    /\ \A i \in ReadIndices(decoded_buffer, channels) :
         /\ i >= 0
         /\ i < LastN * channels
         /\ i < FRAMES * 2
    /\ Cardinality(ReadIndices(decoded_buffer, channels)) = LastN * channels

\* C19 witness: the scratch buffer still holds a sample 1 of the earlier,
\* longer packet beyond N x channels, and no plane shows it.
C19_Witness ==
  /\ Decoded
  /\ op = "decode"
  /\ Len(frames_log) = 2
  /\ frames_log[2] < frames_log[1]
  /\ LastN > 0
  /\ \E i \in (LastN * channels + 1)..(frames_log[1] * channels) :
       libopus_output_buffer[i] = 1
  /\ \A i \in 1..(LastN * channels) : libopus_output_buffer[i] = 0
  /\ \A c \in 0..(channels - 1) :
       \A s \in 1..LastN : Plane(decoded_buffer, c)[s] = 0

\* What the threads holding a reference see is what the adapter holds.
ReadersAgree ==
  \A t \in Threads :
    /\ readers[t].ref = "params" => readers[t].params = params
    /\ readers[t].ref = "buffer" => readers[t].buffer = decoded_buffer
    /\ \A u \in Threads :
         readers[u].ref = readers[t].ref =>
           /\ readers[u].params = readers[t].params
           /\ readers[u].buffer = readers[t].buffer

\* C14: in every interleaving of read-only calls (codec_params,
\* last_decoded) from several threads, the mutating calls kept out while a
\* reader holds its reference, no read-only call touches the external
\* decoder handle or writes adapter state, and all readers see the same
\* parameters and the same output buffer.
C14_ConcurrentReaders ==
  /\ []ReadersAgree
  /\ [][readers' # readers =>
          /\ UNCHANGED adapter
          /\ UNCHANGED <<arg_params, frames_log, op, ret>>]_vars
  /\ [][adapter' # adapter => NoBorrow]_vars

\* C14 witness: two threads hold the decoded, non-empty output buffer at
\* the same time.
C14_Witness ==
  /\ Decoded
  /\ Frames(decoded_buffer) = FRAMES
  /\ \E i \in DOMAIN decoded_buffer.buf : decoded_buffer.buf[i] # 0
  /\ \A t \in Threads : readers[t].ref = "buffer"
====
